---- MODULE Spec2Model ----
(***************************************************************************)
(* Model of the cosi host-administration HTTP service (src/main.go).       *)
(* The file holds two builds of the service: variant 1 (lines 1-415) and   *)
(* variant 2 (lines 417-653).  A server runs one of them.                  *)
(*                                                                         *)
(* Text is modelled as a sequence of characters.  The characters '#', '=', *)
(* '"' and ' ' are themselves; every other character run that the code     *)
(* never looks inside (a word such as ID or ubuntu) is one element.        *)
(*                                                                         *)
(* Modelled: GET /os (/os-release), GET /uname, POST /systemctl/status,    *)
(* POST /packages, POST /kubernetes.  GET /packages, GET /binaries and     *)
(* GET /kubernetes are left out.                                           *)
(***************************************************************************)
EXTENDS Integers, Sequences, FiniteSets, TLC

\* ------------------------------------------------------------------ bounds
\* Most lines an os-release file holds.
MaxLines == 2
\* Most packages in an install or uninstall list.
MaxPkgs == 1
\* Requests in flight at once in the concurrent specification.
NumReqs == 2

\* ------------------------------------------------------------ text helpers
HASH == "#"
EQ == "="
QUOTE == "\""
SP == " "

\* strings.HasPrefix(line, "#")
HasPrefixHash(s) == Len(s) > 0 /\ s[1] = HASH

\* Index of the first '=' of s, 0 when there is none (strings.SplitN(line, "=", 2)
\* yields two parts exactly when this is > 0).
IndexEq(s) ==
  IF \E i \in 1..Len(s) : s[i] = EQ
  THEN CHOOSE i \in 1..Len(s) : s[i] = EQ /\ \A j \in 1..(i - 1) : s[j] # EQ
  ELSE 0

\* strings.Trim(s, cutset) for a one-character cutset: every leading and every
\* trailing occurrence of c is removed.
TrimChar(s, c) ==
  IF \A i \in 1..Len(s) : s[i] = c
  THEN << >>
  ELSE LET lo == CHOOSE i \in 1..Len(s) : s[i] # c /\ \A j \in 1..(i - 1) : s[j] = c
           hi == CHOOSE i \in 1..Len(s) : s[i] # c /\ \A j \in (i + 1)..Len(s) : s[j] = c
       IN SubSeq(s, lo, hi)

\* strings.TrimSpace(s)
TrimSpace(s) == TrimChar(s, SP)

\* ------------------------------------------------------- string maps (Go)
\* A map[string]string is the set of its <<key, value>> pairs, keys distinct.
EmptyMap == {}

Keys(m) == {p[1] : p \in m}

\* m[k] = v
MapPut(m, k, v) == {p \in m : p[1] # k} \cup {<<k, v>>}

\* m[k]; Go yields the zero value "" for a missing key.
MapGet(m, k) ==
  IF k \in Keys(m) THEN (CHOOSE p \in m : p[1] = k)[2] ELSE << >>

\* ------------------------------------------------------ OS-release reader
\* A line of the file: its text, and whether it is longer than the token
\* buffer of bufio.Scanner (bufio.MaxScanTokenSize, 64 KiB), in which case
\* text holds its beginning.
Line(t, l) == [text |-> t, long |-> l]

\* Faulty variant of ValueOf: the quotes are kept.
ValueBroken(line) == TrimSpace(SubSeq(line, IndexEq(line) + 1, Len(line)))

\* The value stored for a line "key=value": the text after the first '=',
\* surrounding white space removed, then surrounding quotes removed.
ValueOf(line) ==
  TrimChar(TrimSpace(SubSeq(line, IndexEq(line) + 1, Len(line))), QUOTE)

KeyOf(line) == TrimSpace(SubSeq(line, 1, IndexEq(line) - 1))

\* The body of the scan loop for one line of text.
ScanLine(result, line) ==
  IF HasPrefixHash(line) \/ line = << >> THEN result
  ELSE IF IndexEq(line) > 0
       THEN MapPut(result, KeyOf(line), ValueOf(line))
       ELSE result

RECURSIVE ScanAll(_, _)
\* The loop "for scanner.Scan()" over the lines that are left.  Scan()
\* returns false at the end of the file and at a line too long for the
\* buffer; scanner.Err() is non-nil in the second case only.
ScanAll(result, lines) ==
  IF lines = << >> THEN [err |-> FALSE, data |-> result]
  ELSE IF Head(lines).long THEN [err |-> TRUE, data |-> EmptyMap]
  ELSE ScanAll(ScanLine(result, Head(lines).text), Tail(lines))

\* What the file system holds at /etc/os-release: whether os.Open succeeds,
\* and the file's lines.
File(o, ls) == [openable |-> o, lines |-> ls]

NoFile == File(FALSE, << >>)

readOSReleaseFile(file) ==
  IF ~file.openable THEN [err |-> TRUE, data |-> EmptyMap]
  ELSE ScanAll(EmptyMap, file.lines)

\* ---------------------------------------------------------------- inputs
SeqsUpTo(S, n) == UNION {[1..k -> S] : k \in 0..n}

\* Line texts an os-release file is made of here: entries for each supported
\* and some unsupported ID values, with and without quotes and white space,
\* a comment holding '=', a blank line, a line without '=', a line of white
\* space, a value holding '=', and a '#' that is not at the start of the line.
LineTexts ==
  { <<"ID", EQ, "ubuntu">>,
    <<"ID", EQ, QUOTE, "debian", QUOTE>>,
    <<"ID", EQ, "fedora">>,
    <<"ID", EQ, QUOTE, QUOTE, "centos", QUOTE>>,
    <<SP, "ID", SP, EQ, SP, "rhel", SP>>,
    <<"ID", EQ, "arch">>,
    <<"NAME", EQ, QUOTE, "ID", EQ, "arch", QUOTE>>,
    <<HASH, "ID", EQ, "ubuntu">>,
    << >>,
    <<"ubuntu">>,
    <<SP>>,
    <<SP, HASH, "ID", EQ, "ubuntu">> }

\* Lines too long for the scanner's buffer: a comment and an entry.
LongLines ==
  { Line(<<HASH, "ID", EQ, "ubuntu">>, TRUE), Line(<<"ID", EQ, "ubuntu">>, TRUE) }

Lines == {Line(t, FALSE) : t \in LineTexts} \cup LongLines

Files == {File(TRUE, ls) : ls \in SeqsUpTo(Lines, MaxLines)} \cup {NoFile}

PkgNames == {"foo"}

PkgLists == SeqsUpTo(PkgNames, MaxPkgs)

\* A request body: its syntax ("json": a well-formed JSON document of the
\* endpoint's shape, which is YAML too; "yaml": a well-formed YAML document of
\* that shape that is not JSON, such as block style or unquoted keys; "bad":
\* neither) and the fields it carries.
Body(syn, f, ins, unins) ==
  [syntax |-> syn, failed |-> f, installed |-> ins, uninstalled |-> unins]

NoBody == Body("none", FALSE, << >>, << >>)

SystemctlBodies ==
  {Body(syn, f, << >>, << >>) : syn \in {"json", "yaml"}, f \in BOOLEAN}
    \cup {Body("bad", FALSE, << >>, << >>)}

PackageBodies(L) ==
  {Body(syn, FALSE, ins, unins) : syn \in {"json", "yaml"}, ins \in L, unins \in L}
    \cup {Body("bad", FALSE, << >>, << >>)}

\* ------------------------------------------------------------------ state
VARIABLES
  variant,   \* which build of the service runs: 1 or 2
  req        \* per request slot: the handler's local state and its response

vars == <<variant, req>>

Reqs == 1..NumReqs

\* exec.Command(name, args...); NoCmd is the nil *exec.Cmd.
Cmd(name, args) == [name |-> name, args |-> args]

NoCmd == Cmd("", << >>)

\* What a finished command wrote: it names the command, and ends in white space.
Out(cmd) == <<cmd.name>> \o cmd.args \o <<SP>>

\* c.JSON(status, ...)
Resp(status, error, output, data) ==
  [status |-> status, error |-> error, output |-> output, data |-> data]

NoResp == Resp(0, "", << >>, {})

IdleReq ==
  [ kind |-> "idle", pc |-> "idle", body |-> NoBody,
    osRead |-> FALSE, file |-> NoFile, data |-> EmptyMap,
    installCmd |-> NoCmd, uninstallCmd |-> NoCmd,
    phase |-> 0, spawned |-> << >>, buf |-> << >>, resp |-> NoResp ]

\* cmd.Run() / cmd.Output() starts the process and blocks until it exits.
Spawn(q, cmd, phase) ==
  [q EXCEPT !.pc = "running", !.phase = phase,
            !.spawned = Append(@, [cmd |-> cmd, result |-> "running"])]

\* The running process has exited with this result.
Exited(q, res) ==
  [q EXCEPT !.spawned = [@ EXCEPT ![Len(@)] = [@ EXCEPT !.result = res]]]

Respond(q, resp) == [q EXCEPT !.pc = "done", !.resp = resp]

Running(q) == q.spawned[Len(q.spawned)].cmd

Init ==
  /\ variant \in {1, 2}
  /\ req = [r \in Reqs |-> IdleReq]

\* ------------------------------------------------- GET /os, GET /os-release
GetOS(r, F) ==
  /\ req[r].pc = "idle"
  /\ \E f \in F :
       LET rd == readOSReleaseFile(f)
           q == [req[r] EXCEPT !.kind = "os", !.osRead = TRUE, !.file = f,
                               !.data = rd.data]
       IN req' = [req EXCEPT ![r] =
            IF rd.err
            THEN Respond(q, Resp(500, "Unable to read /etc/os-release file", << >>, {}))
            ELSE Respond(q, Resp(200, "", << >>, rd.data))]
  /\ UNCHANGED variant

\* ------------------------------------------------------------- GET /uname
\* The eight queries of getUnameOutput, in the order it runs them.
UnameArgs ==
  << << >>, <<"-n">>, <<"-r">>, <<"-v">>, <<"-m">>, <<"-p">>, <<"-i">>, <<"-o">> >>

\* The label each query's output is stored under.
UnameKeys ==
  << "kernel_name", "nodename", "kernel_release", "kernel_version",
     "machine", "processor", "hardware", "os" >>

UnameCmd(i) == Cmd("uname", UnameArgs[i])

\* The result map built from the eight captured outputs.
UnameResult(outs) ==
  {<<UnameKeys[i], TrimSpace(outs[i])>> : i \in 1..Len(UnameKeys)}

GetUname(r) ==
  /\ req[r].pc = "idle"
  /\ req' = [req EXCEPT ![r] = Spawn([@ EXCEPT !.kind = "uname"], UnameCmd(1), 1)]
  /\ UNCHANGED variant

\* Faulty variant of UnameReturn: a failed query is treated like a successful one.
UnameReturnIgnoringErrors(r) ==
  /\ req[r].kind = "uname" /\ req[r].pc = "running"
  /\ \E res \in {"ok", "fail"} :
       LET q == Exited(req[r], res)
           i == q.phase
           got == [q EXCEPT !.buf = Append(@, Out(Running(q)))]
       IN req' = [req EXCEPT ![r] =
            IF i < Len(UnameArgs) THEN Spawn(got, UnameCmd(i + 1), i + 1)
            ELSE Respond(got, Resp(200, "", << >>, UnameResult(got.buf)))]
  /\ UNCHANGED variant

\* The running uname query exits: on an error getUnameOutput returns (nil, err)
\* and the handler answers 500; otherwise the next query is started, or after
\* the last one the map is answered with 200.
UnameReturn(r) ==
  /\ req[r].kind = "uname" /\ req[r].pc = "running"
  /\ \E res \in {"ok", "fail"} :
       LET q == Exited(req[r], res)
           i == q.phase
           got == [q EXCEPT !.buf = Append(@, Out(Running(q)))]
       IN req' = [req EXCEPT ![r] =
            IF res = "fail"
            THEN Respond(q, Resp(500, "Unable to get uname output", << >>, {}))
            ELSE IF i < Len(UnameArgs) THEN Spawn(got, UnameCmd(i + 1), i + 1)
            ELSE Respond(got, Resp(200, "", << >>, UnameResult(got.buf)))]
  /\ UNCHANGED variant

\* ------------------------------------------------- POST /systemctl/status
\* c.BindJSON(&request): fails unless the body is well-formed JSON.
BindJSON(body) ==
  [err |-> body.syntax # "json",
   Failed |-> IF body.syntax = "json" THEN body.failed ELSE FALSE]

\* Faulty variant of SystemctlArgs: the flag is ignored.
SystemctlArgsNoFilter(v, failed) ==
  IF v = 1 THEN <<"status", "--no-pager">>
  ELSE <<"status", "--no-pager", "--output", "json">>

\* The argument list of the systemctl command, per build.
SystemctlArgs(v, failed) ==
  IF v = 1
  THEN IF failed THEN <<"status", "--failed", "--no-pager">>
       ELSE <<"status", "--no-pager">>
  ELSE IF failed THEN <<"status", "--failed", "--nop-pager", "--output", "json">>
       ELSE <<"status", "--no-pager", "--output", "json">>

PostSystemctl(r, B) ==
  /\ req[r].pc = "idle"
  /\ \E body \in B :
       LET bind == BindJSON(body)
           q == [req[r] EXCEPT !.kind = "systemctl", !.body = body]
       IN req' = [req EXCEPT ![r] =
            IF bind.err
            THEN Respond(q, Resp(400, "Invalid request format", << >>, {}))
            ELSE Spawn(q, Cmd("systemctl", SystemctlArgs(variant, bind.Failed)), 1)]
  /\ UNCHANGED variant

\* systemctl exits: with an error, or with output that json.Unmarshal
\* accepts ("ok_json") or rejects ("ok_text").
SystemctlReturn(r) ==
  /\ req[r].kind = "systemctl" /\ req[r].pc = "running"
  /\ \E res \in {"ok_json", "ok_text", "fail"} :
       LET q == Exited(req[r], IF res = "fail" THEN "fail" ELSE "ok")
       IN req' = [req EXCEPT ![r] =
            IF res = "fail"
            THEN Respond(q, Resp(500, "Failed to execute systemctl command", << >>, {}))
            ELSE IF res = "ok_text"
            THEN Respond(q, Resp(500, "Failed to parse JSON output from systemctl", << >>, {}))
            ELSE Respond(q, Resp(200, "", <<Out(Running(q))>>, {}))]
  /\ UNCHANGED variant

\* --------------------------------------------------------- POST /packages
\* Faulty variant of ShouldBindYAML: every body is accepted.
ShouldBindYAMLLenient(body) ==
  [err |-> FALSE, Installed |-> body.installed, Uninstalled |-> body.uninstalled]

\* c.ShouldBindYAML(&packageConfig): fails unless the body is well-formed
\* YAML; a well-formed JSON document is well-formed YAML.
ShouldBindYAML(body) ==
  IF body.syntax \in {"json", "yaml"}
  THEN [err |-> FALSE, Installed |-> body.installed, Uninstalled |-> body.uninstalled]
  ELSE [err |-> TRUE, Installed |-> << >>, Uninstalled |-> << >>]

\* Faulty variant of PackageManager: an unknown ID falls through to apt-get.
PackageManagerGuessing(id) ==
  IF id \in {<<"fedora">>, <<"centos">>, <<"rhel">>} THEN "dnf" ELSE "apt-get"

\* switch osReleaseData["ID"]: the package manager, "" for the default case.
PackageManager(id) ==
  IF id \in {<<"ubuntu">>, <<"debian">>} THEN "apt-get"
  ELSE IF id \in {<<"fedora">>, <<"centos">>, <<"rhel">>} THEN "dnf"
  ELSE ""

\* Faulty variant of BuildCmd: the command is built for an empty list too.
BuildCmdAlways(pm, verb, list) == Cmd(pm, <<verb, "-y">> \o list)

\* if len(list) > 0 { cmd = exec.Command(pm, append([]string{verb, "-y"}, list...)...) }
BuildCmd(pm, verb, list) ==
  IF Len(list) > 0 THEN Cmd(pm, <<verb, "-y">> \o list) ELSE NoCmd

\* The 200 answer: install_output and uninstall_output, "" for a step not run.
PackagesOK(q) ==
  Resp(200, "",
       << IF q.installCmd # NoCmd THEN Out(q.installCmd) ELSE << >>,
          IF q.uninstallCmd # NoCmd THEN Out(q.uninstallCmd) ELSE << >> >>,
       {})

PostPackages(r, F, B) ==
  /\ req[r].pc = "idle"
  /\ \E body \in B, f \in F :
       LET bind == ShouldBindYAML(body)
           rd == readOSReleaseFile(f)
           pm == PackageManager(MapGet(rd.data, <<"ID">>))
           q0 == [req[r] EXCEPT !.kind = "packages", !.body = body]
           q1 == [q0 EXCEPT !.osRead = TRUE, !.file = f, !.data = rd.data]
           q2 == [q1 EXCEPT !.installCmd = BuildCmd(pm, "install", bind.Installed),
                            !.uninstallCmd = BuildCmd(pm, "remove", bind.Uninstalled)]
       IN req' = [req EXCEPT ![r] =
            IF bind.err
            THEN Respond(q0, Resp(400, "Invalid YAML format", << >>, {}))
            ELSE IF rd.err
            THEN Respond(q1, Resp(500, "Unable to determine the operating system", << >>, {}))
            ELSE IF pm = ""
            THEN Respond(q1, Resp(400, "Unsupported operating system", << >>, {}))
            ELSE IF q2.installCmd # NoCmd THEN Spawn(q2, q2.installCmd, 1)
            ELSE IF q2.uninstallCmd # NoCmd THEN Spawn(q2, q2.uninstallCmd, 2)
            ELSE Respond(q2, PackagesOK(q2))]
  /\ UNCHANGED variant

\* Faulty variant of InstallReturn: a failed install does not end the request.
InstallReturnKeepGoing(r) ==
  /\ req[r].kind = "packages" /\ req[r].pc = "running" /\ req[r].phase = 1
  /\ \E res \in {"ok", "fail"} :
       LET q == Exited(req[r], res)
       IN req' = [req EXCEPT ![r] =
            IF q.uninstallCmd # NoCmd THEN Spawn(q, q.uninstallCmd, 2)
            ELSE Respond(q, PackagesOK(q))]
  /\ UNCHANGED variant

\* installCmd.Run() returns.
InstallReturn(r) ==
  /\ req[r].kind = "packages" /\ req[r].pc = "running" /\ req[r].phase = 1
  /\ \E res \in {"ok", "fail"} :
       LET q == Exited(req[r], res)
       IN req' = [req EXCEPT ![r] =
            IF res = "fail"
            THEN Respond(q, Resp(500, "Failed to install packages",
                                 <<Out(q.installCmd)>>, {}))
            ELSE IF q.uninstallCmd # NoCmd THEN Spawn(q, q.uninstallCmd, 2)
            ELSE Respond(q, PackagesOK(q))]
  /\ UNCHANGED variant

\* uninstallCmd.Run() returns.
UninstallReturn(r) ==
  /\ req[r].kind = "packages" /\ req[r].pc = "running" /\ req[r].phase = 2
  /\ \E res \in {"ok", "fail"} :
       LET q == Exited(req[r], res)
       IN req' = [req EXCEPT ![r] =
            IF res = "fail"
            THEN Respond(q, Resp(500, "Failed to uninstall packages",
                                 <<Out(q.uninstallCmd)>>, {}))
            ELSE Respond(q, PackagesOK(q))]
  /\ UNCHANGED variant

\* ------------------------------------------------------- POST /kubernetes
\* The commands of installAndBootstrapKubernetes, in order.
KubeCommands ==
  << "sudo apt-get update",
     "sudo apt-get install -y apt-transport-https ca-certificates curl",
     "curl -fsSL https://packages.cloud.google.com/apt/doc/apt-key.gpg | sudo apt-key add -",
     "sudo bash -c 'cat <<EOF >/etc/apt/sources.list.d/kubernetes.list ... EOF'",
     "sudo apt-get update",
     "sudo apt-get install -y kubelet kubeadm kubectl",
     "sudo swapoff -a",
     "sudo kubeadm init",
     "mkdir -p $HOME/.kube",
     "sudo cp -i /etc/kubernetes/admin.conf $HOME/.kube/config",
     "sudo chown $(id -u):$(id -g) $HOME/.kube/config",
     "kubectl apply -f https://raw.githubusercontent.com/coreos/flannel/master/Documentation/kube-flannel.yml" >>

\* execCommand(cmd, &outputBuffer) runs bash -c cmd.
KubeCmd(i) == Cmd("bash", <<"-c", KubeCommands[i]>>)

\* The endpoint exists in variant 1 only.
PostKubernetes(r) ==
  /\ variant = 1
  /\ req[r].pc = "idle"
  /\ req' = [req EXCEPT ![r] = Spawn([@ EXCEPT !.kind = "kubernetes"], KubeCmd(1), 1)]
  /\ UNCHANGED variant

\* Faulty variant of KubernetesReturn: a failed step does not end the loop.
KubernetesReturnKeepGoing(r) ==
  /\ req[r].kind = "kubernetes" /\ req[r].pc = "running"
  /\ \E res \in {"ok", "fail"} :
       LET q == Exited(req[r], res)
           i == q.phase
           got == [q EXCEPT !.buf = Append(@, Out(Running(q)))]
       IN req' = [req EXCEPT ![r] =
            IF i < Len(KubeCommands) THEN Spawn(got, KubeCmd(i + 1), i + 1)
            ELSE Respond(got, Resp(200, "", got.buf, {}))]
  /\ UNCHANGED variant

\* Faulty variant of KubernetesReturn: outputBuffer is one buffer shared by
\* all bootstrap requests in flight.
KubernetesReturnSharedBuffer(r) ==
  /\ req[r].kind = "kubernetes" /\ req[r].pc = "running"
  /\ \E res \in {"ok", "fail"} :
       LET q == Exited(req[r], res)
           i == q.phase
           got == [q EXCEPT !.buf = Append(@, Out(Running(q)))]
           mine == IF res = "fail"
                   THEN Respond(got, Resp(500, "Failed to install and bootstrap Kubernetes",
                                          got.buf, {}))
                   ELSE IF i < Len(KubeCommands) THEN Spawn(got, KubeCmd(i + 1), i + 1)
                   ELSE Respond(got, Resp(200, "", got.buf, {}))
       IN req' = [o \in Reqs |->
            IF o = r THEN mine
            ELSE IF req[o].kind = "kubernetes"
                 THEN [req[o] EXCEPT !.buf = Append(@, Out(Running(q)))]
                 ELSE req[o]]
  /\ UNCHANGED variant

\* The running step exits.  Its output is in outputBuffer either way.  On an
\* error the loop returns the buffer and the handler answers 500 with it;
\* otherwise the next step is started, or after the last one 200 is answered.
KubernetesReturn(r) ==
  /\ req[r].kind = "kubernetes" /\ req[r].pc = "running"
  /\ \E res \in {"ok", "fail"} :
       LET q == Exited(req[r], res)
           i == q.phase
           got == [q EXCEPT !.buf = Append(@, Out(Running(q)))]
       IN req' = [req EXCEPT ![r] =
            IF res = "fail"
            THEN Respond(got, Resp(500, "Failed to install and bootstrap Kubernetes",
                                   got.buf, {}))
            ELSE IF i < Len(KubeCommands) THEN Spawn(got, KubeCmd(i + 1), i + 1)
            ELSE Respond(got, Resp(200, "", got.buf, {}))]
  /\ UNCHANGED variant

\* ------------------------------------------------------------ environment
\* No command has a timeout: the running process never exits and the
\* handler's goroutine stays in Run()/Output() for ever.
CommandHangs(r) ==
  /\ req[r].pc = "running"
  /\ req' = [req EXCEPT ![r] = [Exited(@, "hang") EXCEPT !.pc = "blocked"]]
  /\ UNCHANGED variant

\* The response has been sent and the handler has returned: its locals are
\* gone and the slot takes the next request.
Close(r) ==
  /\ req[r].pc = "done"
  /\ req' = [req EXCEPT ![r] = IdleReq]
  /\ UNCHANGED variant

\* --------------------------------------------------------- specifications
\* One request at a time, over every os-release file and package list.
Next ==
  \/ GetOS(1, Files)
  \/ GetUname(1)
  \/ UnameReturn(1)
  \/ PostSystemctl(1, SystemctlBodies)
  \/ SystemctlReturn(1)
  \/ PostPackages(1, Files, PackageBodies(PkgLists))
  \/ InstallReturn(1)
  \/ UninstallReturn(1)
  \/ PostKubernetes(1)
  \/ KubernetesReturn(1)
  \/ CommandHangs(1)
  \/ Close(1)

Spec == Init /\ [][Next]_vars

\* Several requests in flight, each handled on its own goroutine, over one
\* os-release file and, per endpoint, one well-formed and one malformed body.
ConcFiles == { File(TRUE, <<Line(<<"ID", EQ, "ubuntu">>, FALSE)>>) }

ConcBodies ==
  { Body("json", FALSE, <<"foo">>, <<"foo">>), Body("bad", FALSE, << >>, << >>) }

ConcSystemctlBodies ==
  { Body("json", TRUE, << >>, << >>), Body("bad", FALSE, << >>, << >>) }

Handle(r) ==
  \/ GetOS(r, ConcFiles)
  \/ GetUname(r)
  \/ UnameReturn(r)
  \/ PostSystemctl(r, ConcSystemctlBodies)
  \/ SystemctlReturn(r)
  \/ PostPackages(r, ConcFiles, ConcBodies)
  \/ InstallReturn(r)
  \/ UninstallReturn(r)
  \/ PostKubernetes(r)
  \/ KubernetesReturn(r)

NextConc ==
  \E r \in Reqs : Handle(r) \/ CommandHangs(r)

SpecConc == Init /\ [][NextConc]_vars

\* ================================================================ claims
\* The range of a sequence.
Range(s) == {s[i] : i \in 1..Len(s)}

\* The POST /packages requests whose body parsed and whose OS identity was read.
PackagesPastRead(q) ==
  /\ q.kind = "packages"
  /\ q.body.syntax \in {"json", "yaml"}
  /\ q.osRead
  /\ q.resp.error # "Unable to determine the operating system"

IdOf(q) == MapGet(q.data, <<"ID">>)

AptIds == {<<"ubuntu">>, <<"debian">>}

DnfIds == {<<"fedora">>, <<"centos">>, <<"rhel">>}

OnSupportedOS(q) == PackagesPastRead(q) /\ IdOf(q) \in AptIds \cup DnfIds

\* The processes of a request started with this verb ("install", "remove").
Invocations(q, verb) ==
  {i \in 1..Len(q.spawned) : q.spawned[i].cmd.args[1] = verb}

\* C1: in POST /packages, once the body has parsed and the OS identity has been
\* read, ID ubuntu or debian means every spawned process is apt-get, ID
\* fedora, centos or rhel means every spawned process is dnf, and any other ID
\* (a missing one included) means the answer is 400 and nothing was spawned,
\* whatever the two lists hold.
C1_Dispatch ==
  \A r \in Reqs :
    LET q == req[r] IN
    PackagesPastRead(q) =>
      /\ IdOf(q) \in AptIds => \A p \in Range(q.spawned) : p.cmd.name = "apt-get"
      /\ IdOf(q) \in DnfIds => \A p \in Range(q.spawned) : p.cmd.name = "dnf"
      /\ IdOf(q) \notin AptIds \cup DnfIds =>
           q.pc = "done" /\ q.resp.status = 400 /\ q.spawned = << >>

\* A request on an "ID=arch" host asking for an install and an uninstall was
\* rejected.
C1_Witness ==
  \E r \in Reqs :
    LET q == req[r] IN
    /\ PackagesPastRead(q) /\ IdOf(q) = <<"arch">>
    /\ q.body.installed # << >> /\ q.body.uninstalled # << >>
    /\ q.resp.status = 400

\* C2: in POST /packages with both lists non-empty on a supported OS, the
\* install process is the first one started and has exited successfully before
\* the uninstall process is started; when the install process fails the answer
\* is 500 at once and no uninstall process is started.
C2_InstallThenUninstall ==
  \A r \in Reqs :
    LET q == req[r] IN
    (OnSupportedOS(q) /\ q.body.installed # << >> /\ q.body.uninstalled # << >>) =>
      /\ q.spawned # << >>
      /\ q.spawned[1].cmd.args[1] = "install"
      /\ \A i \in Invocations(q, "remove") : i = 2 /\ q.spawned[1].result = "ok"
      /\ q.spawned[1].result = "fail" =>
           q.pc = "done" /\ q.resp.status = 500 /\ Len(q.spawned) = 1

\* The install step of a request with both lists failed.
C2_Witness ==
  \E r \in Reqs :
    LET q == req[r] IN
    /\ OnSupportedOS(q) /\ q.body.installed # << >> /\ q.body.uninstalled # << >>
    /\ q.spawned # << >> /\ q.spawned[1].result = "fail"
    /\ q.resp.status = 500

\* C3: in POST /packages on a supported OS, a request has exactly one install
\* process if its install list is non-empty and none otherwise, and at most
\* one uninstall process, which needs a non-empty uninstall list; every
\* process is an install or an uninstall, so nothing is run twice.
C3_OneInvocationEach ==
  \A r \in Reqs :
    LET q == req[r] IN
    OnSupportedOS(q) =>
      /\ Cardinality(Invocations(q, "install")) = (IF q.body.installed # << >> THEN 1 ELSE 0)
      /\ Cardinality(Invocations(q, "remove")) <= 1
      /\ Invocations(q, "remove") # {} => q.body.uninstalled # << >>
      /\ Len(q.spawned) =
           Cardinality(Invocations(q, "install")) + Cardinality(Invocations(q, "remove"))
      /\ (q.pc = "done" /\ q.resp.status = 200 /\ q.body.uninstalled # << >>) =>
           Invocations(q, "remove") # {}

\* Installing ["foo"] with nothing to uninstall was answered 200 after one
\* install process and no uninstall process.
C3_Witness ==
  \E r \in Reqs :
    LET q == req[r] IN
    /\ OnSupportedOS(q) /\ q.body.installed = <<"foo">> /\ q.body.uninstalled = << >>
    /\ q.pc = "done" /\ q.resp.status = 200
    /\ Len(q.spawned) = 1 /\ q.spawned[1].cmd.args = <<"install", "-y", "foo">>

\* C4 as stated: for POST /systemctl/status and POST /packages a body that is
\* malformed JSON is answered 400 and spawns nothing, and /packages has then
\* neither read the OS identity nor built a command.
C4_AsStated ==
  \A r \in Reqs :
    LET q == req[r] IN
    (q.kind \in {"systemctl", "packages"} /\ q.body.syntax # "json") =>
      /\ q.pc = "done" /\ q.resp.status = 400 /\ q.spawned = << >>
      /\ ~q.osRead /\ q.installCmd = NoCmd /\ q.uninstallCmd = NoCmd

\* C4, amended: POST /systemctl/status answers a body that is malformed JSON
\* with 400 and spawns nothing; POST /packages binds its body as YAML and
\* answers a body that is malformed YAML with 400, spawning nothing, before
\* the OS identity is read or a command is built.
C4_MalformedBody ==
  \A r \in Reqs :
    LET q == req[r] IN
    /\ (q.kind = "systemctl" /\ q.body.syntax # "json") =>
         q.pc = "done" /\ q.resp.status = 400 /\ q.spawned = << >>
    /\ (q.kind = "packages" /\ q.body.syntax \notin {"json", "yaml"}) =>
         /\ q.pc = "done" /\ q.resp.status = 400 /\ q.spawned = << >>
         /\ ~q.osRead /\ q.installCmd = NoCmd /\ q.uninstallCmd = NoCmd

\* A POST /packages request with a body that is not YAML was rejected.
C4_Witness ==
  \E r \in Reqs :
    LET q == req[r] IN
    q.kind = "packages" /\ q.body.syntax = "bad" /\ q.resp.status = 400

\* C5: POST /kubernetes runs the fixed commands in their listed order, one at
\* a time; a command is started only after all earlier ones succeeded; after
\* the first failure nothing more is started and the answer is 500 with the
\* output of every command run so far, the failing one included; 200 is
\* answered only after all commands ran and succeeded.
C5_BootstrapSequence ==
  \A r \in Reqs :
    LET q == req[r]
        n == Len(q.spawned)
    IN q.kind = "kubernetes" =>
      /\ n \in 1..Len(KubeCommands)
      /\ \A i \in 1..n : q.spawned[i].cmd = Cmd("bash", <<"-c", KubeCommands[i]>>)
      /\ \A i \in 1..(n - 1) : q.spawned[i].result = "ok"
      /\ q.spawned[n].result = "fail" =>
           /\ q.pc = "done" /\ q.resp.status = 500
           /\ q.resp.output =
                [i \in 1..n |-> <<"bash", "-c", KubeCommands[i], SP>>]
      /\ q.pc = "done" => q.resp.status \in {200, 500}
      /\ q.resp.status = 200 =>
           n = Len(KubeCommands) /\ \A i \in 1..n : q.spawned[i].result = "ok"
      /\ q.resp.status = 500 => q.spawned[n].result = "fail"

\* The bootstrap failed at a step in the middle.
C5_Witness ==
  \E r \in Reqs :
    LET q == req[r] IN
    /\ q.kind = "kubernetes" /\ q.resp.status = 500
    /\ Len(q.spawned) = 8 /\ Len(q.resp.output) = 8

\* C7: in POST /systemctl/status, for a well-formed body, the spawned
\* systemctl command has "--failed" among its arguments exactly when the
\* request's failed flag is true.
C7_FailedSelector ==
  \A r \in Reqs :
    LET q == req[r] IN
    (q.kind = "systemctl" /\ q.body.syntax = "json") =>
      /\ Len(q.spawned) = 1
      /\ q.spawned[1].cmd.name = "systemctl"
      /\ ("--failed" \in Range(q.spawned[1].cmd.args)) <=> q.body.failed

\* Variant 2 ran the query for failed = true.
C7_Witness ==
  \E r \in Reqs :
    LET q == req[r] IN
    /\ variant = 2 /\ q.kind = "systemctl" /\ q.body.syntax = "json" /\ q.body.failed
    /\ Len(q.spawned) = 1 /\ q.spawned[1].result = "ok"

\* C10: GET /uname answers 200 only when all eight queries succeeded, and then
\* with exactly the eight keys; when a query fails the answer is 500 with no
\* mapping and no later query of the fixed order is started.
C10_Uname ==
  \A r \in Reqs :
    LET q == req[r]
        n == Len(q.spawned)
    IN q.kind = "uname" =>
      /\ n \in 1..8
      /\ \A i \in 1..n : q.spawned[i].cmd = Cmd("uname", UnameArgs[i])
      /\ q.pc = "done" => q.resp.status \in {200, 500}
      /\ q.resp.status = 200 =>
           /\ n = 8 /\ \A i \in 1..n : q.spawned[i].result = "ok"
           /\ Keys(q.resp.data) =
                { "kernel_name", "nodename", "kernel_release", "kernel_version",
                  "machine", "processor", "hardware", "os" }
           /\ Cardinality(q.resp.data) = 8
      /\ \A i \in 1..n : q.spawned[i].result = "fail" =>
           i = n /\ q.pc = "done" /\ q.resp.status = 500 /\ q.resp.data = {}

\* The fourth query failed.
C10_Witness ==
  \E r \in Reqs :
    LET q == req[r] IN
    /\ q.kind = "uname" /\ q.resp.status = 500
    /\ Len(q.spawned) = 4 /\ q.spawned[4].result = "fail"

\* ------------------------------------------------- the OS-release reader
RECURSIVE Strip(_, _)
\* s without its leading and trailing occurrences of c.
Strip(s, c) ==
  IF s # << >> /\ Head(s) = c THEN Strip(Tail(s), c)
  ELSE IF s # << >> /\ s[Len(s)] = c THEN Strip(SubSeq(s, 1, Len(s) - 1), c)
  ELSE s

\* A line that is not blank, does not start with '#', and holds '='.
IsEntryLine(t) == t # << >> /\ t[1] # HASH /\ EQ \in Range(t)

FirstEq(t) == CHOOSE i \in 1..Len(t) : t[i] = EQ /\ EQ \notin Range(SubSeq(t, 1, i - 1))

BeforeEq(t) == SubSeq(t, 1, FirstEq(t) - 1)

AfterEq(t) == SubSeq(t, FirstEq(t) + 1, Len(t))

\* The places of the entry lines of a file.
EntryIdx(file) == {i \in 1..Len(file.lines) : IsEntryLine(file.lines[i].text)}

\* The GET /os requests that found the file readable.
ReadFile(q) == q.kind = "os" /\ q.osRead /\ q.file.openable

\* C8 as stated, for a readable file whose lines all fit the scanner's
\* buffer: the mapping has one entry per entry line (as many entries as there
\* are such lines), each line's value being the text after its first '='
\* without its quotes (and surrounding white space).
C8_AsStated ==
  \A r \in Reqs :
    LET q == req[r] IN
    (ReadFile(q) /\ \A l \in Range(q.file.lines) : ~l.long) =>
      /\ q.resp.status = 200
      /\ Cardinality(q.resp.data) = Cardinality(EntryIdx(q.file))
      /\ \A i \in EntryIdx(q.file) :
           \E p \in q.resp.data :
             p[2] = Strip(Strip(AfterEq(q.file.lines[i].text), SP), QUOTE)

\* C8, amended: for a readable file, the read fails when a line is too long
\* for the scanner's buffer; otherwise the mapping has one entry per distinct
\* key among the entry lines, the key being the text before the first '='
\* without surrounding white space, and its value the text after the first
\* '=' of the last entry line with that key, without surrounding white space
\* and then without surrounding quotes.
C8_Entries ==
  \A r \in Reqs :
    LET q == req[r]
        ls == q.file.lines
        idx == EntryIdx(q.file)
        key(i) == Strip(BeforeEq(ls[i].text), SP)
        val(i) == Strip(Strip(AfterEq(ls[i].text), SP), QUOTE)
        last == {i \in idx : \A j \in idx : key(j) = key(i) => j <= i}
    IN ReadFile(q) =>
         IF \E i \in 1..Len(ls) : ls[i].long
         THEN q.resp.status = 500 /\ q.resp.data = {}
         ELSE /\ q.resp.status = 200
              /\ q.resp.data = {<<key(i), val(i)>> : i \in last}
              /\ Cardinality(q.resp.data) = Cardinality({key(i) : i \in idx})

\* A file with two entry lines for one key, the second one quoted, was read:
\* the mapping has the one entry of the second line, without its quotes.
C8_Witness ==
  \E r \in Reqs :
    LET q == req[r] IN
    /\ ReadFile(q) /\ q.resp.status = 200
    /\ Cardinality(EntryIdx(q.file)) = 2
    /\ q.resp.data = {<< <<"ID">>, <<"debian">> >>}

\* The file without its blank lines, comment lines and lines holding no '='.
WithoutSkipped(file) ==
  File(file.openable, SelectSeq(file.lines, LAMBDA l : IsEntryLine(l.text)))

\* C9: a line without '=', a blank line and a comment line add no entry,
\* change no entry and do not make the read fail: reading a file gives what
\* reading it without those lines gives.
C9_SkippedLinesChangeNothing ==
  \A r \in Reqs :
    LET q == req[r]
        rd == readOSReleaseFile(WithoutSkipped(q.file))
    IN ReadFile(q) =>
         /\ (q.resp.status = 200) <=> ~rd.err
         /\ q.resp.data = rd.data

\* C9 for files whose skipped lines all fit the scanner's buffer.
C9_WithinBuffer ==
  \A r \in Reqs :
    LET q == req[r]
        rd == readOSReleaseFile(WithoutSkipped(q.file))
    IN (ReadFile(q) /\ \A l \in Range(q.file.lines) : l.long => IsEntryLine(l.text)) =>
         /\ (q.resp.status = 200) <=> ~rd.err
         /\ q.resp.data = rd.data

\* ------------------------------------------------------------ concurrency
\* The handler of r, when it has not answered and is not itself blocked, can
\* take a step: start handling a request, or go on after its command exits.
NotBlocked(r) == req[r].pc \in {"idle", "running"} => ENABLED Handle(r)

\* A step changes the handler state of one request only.
Isolated ==
  \A r \in Reqs : req[r]' # req[r] => \A o \in Reqs \ {r} : req[o]' = req[o]

\* C6: with several requests in flight, whatever the others are doing (one
\* blocked for ever in a command included), a request can start, can go on
\* when its command exits, and so reach its response; and a step of one
\* request's handler changes no other request's state.
C6_Independent == [](\A r \in Reqs : NotBlocked(r)) /\ [][Isolated]_vars

\* A bootstrap request got its 200 while another one is blocked in its first
\* command.
C6_Witness ==
  \E r, o \in Reqs :
    /\ r # o
    /\ req[o].kind = "kubernetes" /\ req[o].pc = "blocked" /\ Len(req[o].spawned) = 1
    /\ req[r].kind = "kubernetes" /\ req[r].pc = "done" /\ req[r].resp.status = 200

\* ------------------------------------------------ the systemctl query
\* An argument list without its "--failed" selector.
WithoutFailed(args) == SelectSeq(args, LAMBDA a : a # "--failed")

\* The POST /systemctl/status requests that spawned their query.
Queried(q) == q.kind = "systemctl" /\ q.body.syntax = "json" /\ q.spawned # << >>

\* The query of a request, without "--failed", is the query this variant
\* spawns for failed = false.
SameButForSelector(q) ==
  WithoutFailed(q.spawned[1].cmd.args) = SystemctlArgs(variant, FALSE)

\* The query of a request is the one either variant spawns for its flag.
SameInBothVariants(q) ==
  \A v \in {1, 2} : q.spawned[1].cmd.args = SystemctlArgs(v, q.body.failed)

\* The query asks systemctl for JSON output.
AsksForJSON(q) ==
  LET args == q.spawned[1].cmd.args IN
  \E i \in 1..(Len(args) - 1) : args[i] = "--output" /\ args[i + 1] = "json"

\* C11: in each variant the query spawned for failed = true is the query
\* spawned for failed = false with only "--failed" added; both variants spawn
\* the same query for the same flag; and the query asks for the JSON output
\* that the handler parses.
C11_SameQuery ==
  \A r \in Reqs :
    LET q == req[r] IN
    Queried(q) => SameButForSelector(q) /\ SameInBothVariants(q) /\ AsksForJSON(q)

\* C11, first part alone: only "--failed" tells the two queries of a variant
\* apart.
C11_OnlySelectorDiffers ==
  \A r \in Reqs : Queried(req[r]) => SameButForSelector(req[r])

\* C11, first part, in variant 1.
C11_OnlySelectorDiffersV1 ==
  \A r \in Reqs : (variant = 1 /\ Queried(req[r])) => SameButForSelector(req[r])

\* C11, last part alone: the query asks for JSON output.
C11_AsksForJSON ==
  \A r \in Reqs : Queried(req[r]) => AsksForJSON(req[r])

\* C11, last part, in variant 2.
C11_AsksForJSONV2 ==
  \A r \in Reqs : (variant = 2 /\ Queried(req[r])) => AsksForJSON(req[r])

====
